---- MODULE Spec2Model ----
(***************************************************************************)
(* Clipboard history manager: the bounded, deduplicating history           *)
(* (clip_history, max_size, last_saved), the watcher that polls the OS     *)
(* clipboard, the picker/settings handlers that delete, clear and resize,  *)
(* and the persisted configuration file.                                   *)
(*                                                                         *)
(* The repository holds four front-ends over the same state:               *)
(*   "main" src/main.py     module-level history, no persistence           *)
(*   "mm"   src/mm.py       Tk picker, watcher thread, in-place delete     *)
(*   "tk"   src/tk_main.py  Tk picker, watcher thread, rebuild delete,     *)
(*                          settings (resize, clear)                       *)
(*   "qt"   src/mmnn.py     Qt picker, watcher on a QTimer of the UI       *)
(*                          thread, settings (resize, clear)               *)
(* A behaviour fixes one front-end in variant.                             *)
(*                                                                         *)
(* Threads interleave between Python statements that touch shared state:   *)
(* one action is one such statement (a deque method, list(deque), an       *)
(* attribute store are atomic under the interpreter lock).  In "qt" both   *)
(* the poll and the handlers are callbacks of one event loop and run to    *)
(* completion.                                                             *)
(***************************************************************************)
EXTENDS Integers, Sequences, FiniteSets, TLC

\* ---------------------------------------------------------------- bounds
\* The texts the user copies, the capacities and the length of an offer
\* sequence, where one context runs at a time ...
NumTexts == 4
MaxCap == 3
MaxOffers == 3
\* The length of an offer sequence where only the recorded offers of the
\* watcher to an empty store are followed.
RunOffers == 5
\* The clipboard reads of the poll loop that fail in one run, and the texts
\* and capacities where the watcher runs alone with save_config statement by
\* statement.
MaxFails == 2
WatchTexts == 3
WatchCap == 2
\* ... and where the watcher thread and the UI thread interleave.
RaceTexts == 2
RaceCap == 2
\* ... and where, in addition, save_config runs statement by statement.
SaveTexts == 1
SaveCap == 1

\* max_size = 100, set by every constructor
DefaultMaxSize == 100

Alphabet == <<"a", "b", "c", "d", "e">>
TextsOf(k) == {Alphabet[i] : i \in 1..k}
Texts == TextsOf(NumTexts)
\* What a clipboard read can return: a text, or the empty string.
ClipValues(T) == T \cup {""}
\* What a caller or the settings entry can pass as the new size.
Sizes(c) == (-1)..c
Variants == {"main", "mm", "tk", "qt"}
Persisting == {"mm", "tk", "qt"}

VARIABLES
    variant,     \* the front-end that runs
    max_size,    \* max_size
    hist,        \* clip_history, oldest first
    hmax,        \* clip_history.maxlen (set when the deque is built)
    last_saved,  \* last_saved
    clip,        \* the OS clipboard
    file,        \* CONFIG_FILE
    wpc,         \* watcher position
    wcur,        \* watcher local: current
    upc,         \* UI handler position ("raised": an exception left it)
    ul,          \* UI handler locals
    uiopen,      \* is_ui_open
    rows,        \* texts of the picker's item frames, newest first
    sel,         \* selected_index[0]
    track,       \* whether the offers are recorded (history variable)
    offers,      \* the texts offered so far, when recorded
    olimit,      \* how many offers are recorded at most (fixed by Init)
    wcfg,        \* save_config in the watcher: config, and how far it got
    ucfg,        \* save_config in the UI handler: config, and how far it got
    nfail,       \* clipboard reads of the poll loop that raised (history
                 \* variable)
    sfail,       \* whether a save_config has raised (history variable)
    running,     \* self.running; in main.py, which has no such flag, whether
                 \* no stop was asked for
    snap,        \* the list a caller got from get_history / list(clip_history)
    pasted,      \* the entry of the history a paste put on the OS clipboard,
                 \* while the clipboard still holds it; "" otherwise (history
                 \* variable)
    gone,        \* the text of the OS clipboard when a delete or a clear took
                 \* it out of the history, while the clipboard still holds
                 \* it; "" otherwise (history variable)
    needs_show_ui,       \* needs_show_ui
    needs_paste_latest,  \* needs_paste_latest
    mpc,         \* position of the main loop (of check_hotkeys in mmnn.py)
    pend_show,   \* where the main loop was when needs_show_ui was last set,
                 \* until a toggle_ui begins; "" otherwise (history variable)
    pend_paste   \* the same for needs_paste_latest and paste_latest

store == <<max_size, hist, hmax>>
watcher == <<wpc, wcur, last_saved>>
picker == <<uiopen, rows, sel>>
uistate == <<upc, ul>>
ghost == <<track, offers, olimit>>
aux == <<wcfg, ucfg, nfail, sfail>>
marks == <<pasted, gone>>
hot == <<needs_show_ui, needs_paste_latest, mpc, pend_show, pend_paste>>
ext == <<running, snap, marks, hot>>
vars == <<variant, max_size, hist, hmax, last_saved, clip, file, wpc, wcur,
          upc, ul, uiopen, rows, sel, track, offers, olimit, wcfg, ucfg, nfail,
          sfail, running, snap, pasted, gone, needs_show_ui,
          needs_paste_latest, mpc, pend_show, pend_paste>>

\* ------------------------------------------------------------- sequences
InSeq(x, s) == \E i \in 1..Len(s) : s[i] = x

NoDup(s) == \A i, j \in 1..Len(s) : i # j => s[i] # s[j]

RECURSIVE Reverse(_)
Reverse(s) == IF s = <<>> THEN <<>> ELSE Append(Reverse(Tail(s)), Head(s))

\* The last n entries of s (all of s when it is no longer than n).
LastN(s, n) ==
    IF Len(s) <= n THEN s ELSE SubSeq(s, Len(s) - n + 1, Len(s))

\* list.remove / deque.remove: drops the first entry equal to x.
RECURSIVE RemoveFirst(_, _)
RemoveFirst(s, x) ==
    IF s = <<>> THEN <<>>
    ELSE IF Head(s) = x THEN Tail(s)
    ELSE <<Head(s)>> \o RemoveFirst(Tail(s), x)

SeqsUpTo(T, n) == UNION {[1..k -> T] : k \in 0..n}
\* Histories of at most c distinct texts of T.
ValidHist(T, c) == {s \in SeqsUpTo(T, c) : NoDup(s)}

\* ----------------------------------------------------------------- deque
\* Mutant of DequeNew: the first n entries are kept instead of the last n.
DequeNewKeepOldest(items, n) ==
    IF Len(items) <= n THEN items ELSE SubSeq(items, 1, n)

\* deque(iterable, maxlen=n), n >= 0: the items are appended one by one, so
\* the last n remain.
DequeNew(items, n) == LastN(items, n)

\* Mutants of DequeAppend: no eviction; eviction on reaching the maximum;
\* the newest entry dropped instead of the oldest.
DequeAppendNoEvict(s, n, x) == Append(s, x)

DequeAppendEvictEarly(s, n, x) ==
    LET a == Append(s, x) IN IF Len(a) >= n THEN Tail(a) ELSE a

DequeAppendDropNewest(s, n, x) ==
    LET a == Append(s, x) IN IF Len(a) > n THEN SubSeq(a, 1, n) ELSE a

\* deque.append on a deque of maximum length n: append on the right, then
\* drop the leftmost entry when the length exceeds n.
DequeAppend(s, n, x) ==
    LET a == Append(s, x) IN IF Len(a) > n THEN Tail(a) ELSE a

\* ------------------------------------------------------------ persistence
\* CONFIG_FILE: whether it exists, what a JSON parser reads from its start,
\* and its length in bytes.  The content is well formed only when the length
\* is the length of the document the fields make.
NoFile == [exists |-> FALSE, max_size |-> 0, history |-> <<>>, size |-> 0]

\* The number of characters json.dump writes for the integer n.
Digits(n) ==
    IF n < 0 THEN 2 ELSE IF n < 10 THEN 1 ELSE IF n < 100 THEN 2 ELSE 3

\* The length of json.dump(config, f, indent=2) for one-character texts:
\* the braces and keys, the digits of max_size, and one line of 9 bytes for
\* every entry of the history ("[]" when it is empty).
JsonLen(ms, h) ==
    Digits(ms) + (IF h = <<>> THEN 57 ELSE 59 + 9 * Len(h))

\* Mutant of ConfigOf: the history is written newest first.
ConfigOfNewestFirst(ms, h) ==
    [exists |-> TRUE, max_size |-> ms,
     history |-> [i \in 1..Len(h) |-> h[Len(h) + 1 - i]],
     size |-> JsonLen(ms, h)]

\* save_config, complete and alone: the file holds the dictionary
\* {max_size, auto_paste, history: list(clip_history)}.
ConfigOf(ms, h) ==
    [exists |-> TRUE, max_size |-> ms, history |-> h, size |-> JsonLen(ms, h)]

\* open(CONFIG_FILE, 'w'): the file exists and is empty.
Truncated == [exists |-> TRUE, max_size |-> 0, history |-> <<>>, size |-> 0]

\* json.dump and the close of the file: the document goes to offset 0 of the
\* file as it is now; what another writer put beyond its end stays.
WriteAt0(f, ms, h) ==
    [exists |-> TRUE, max_size |-> ms, history |-> h,
     size |-> IF f.size > JsonLen(ms, h) THEN f.size ELSE JsonLen(ms, h)]

\* json.load succeeds: the file is one whole document.
Parses(f) == f.exists /\ f.size = JsonLen(f.max_size, f.history)

\* load_config raises (and catches) an exception: json.load fails, or
\* deque() rejects a negative maxlen.
LoadFails(f) == f.exists /\ (~Parses(f) \/ f.max_size < 0)

\* load_config on a manager at its defaults: [max_size, hist, hmax].  A
\* missing file and a file json.load rejects leave the defaults.  deque()
\* raises ValueError on a negative maxlen after max_size was assigned; the
\* except clause swallows it.
LoadConfig(f) ==
    IF ~Parses(f)
    THEN [max_size |-> DefaultMaxSize, hist |-> <<>>, hmax |-> DefaultMaxSize]
    ELSE IF f.max_size < 0
    THEN [max_size |-> f.max_size, hist |-> <<>>, hmax |-> DefaultMaxSize]
    ELSE [max_size |-> f.max_size,
          hist |-> DequeNew(f.history, f.max_size),
          hmax |-> f.max_size]

\* save_config has not started; otherwise st tells the statement that is
\* next ("open", "write") and max_size, history are the dictionary it built.
NoCfg == [st |-> "none", max_size |-> 0, history |-> <<>>]

\* Files a previous run can have left: none, or a saved store.
InitFiles(T, cap) ==
    {NoFile} \cup
    UNION {{ConfigOf(c, h) : h \in ValidHist(T, c)} : c \in 1..cap}

NoLocals == [idx |-> 0, text |-> "", tmp |-> <<>>]

\* No list was handed out.  Otherwise held is TRUE, items is what the list
\* holds, and alias tells whether the list is the history object itself.
NoSnap == [held |-> FALSE, alias |-> FALSE, items |-> <<>>]

\* ------------------------------------------------------------------ Init
InitCommon(clips) ==
    /\ variant \in Variants
    /\ clip \in clips
    /\ last_saved = ""
    /\ wpc = "start"
    /\ wcur = ""
    /\ upc = "idle"
    /\ ul = NoLocals
    /\ uiopen = FALSE
    /\ rows = <<>>
    /\ sel = 0
    /\ wcfg = NoCfg
    /\ ucfg = NoCfg
    /\ nfail = 0
    /\ sfail = FALSE
    /\ running = TRUE
    /\ snap = NoSnap
    /\ pasted = ""
    /\ gone = ""
    /\ needs_show_ui = FALSE
    /\ needs_paste_latest = FALSE
    /\ mpc = "test_show"
    /\ pend_show = ""
    /\ pend_paste = ""

\* After __init__: defaults, then load_config (main.py has no file).
InitStarted(T, cap) ==
    /\ InitCommon(ClipValues(T))
    /\ \E f \in InitFiles(T, cap) :
         /\ file = IF variant \in Persisting THEN f ELSE NoFile
         /\ LET c == LoadConfig(file) IN
              /\ max_size = c.max_size
              /\ hist = c.hist
              /\ hmax = c.hmax
    /\ track = FALSE
    /\ offers = <<>>
    /\ olimit = MaxOffers

Init == InitStarted(TextsOf(RaceTexts), RaceCap)

\* A store of capacity c > 0 holding at most c entries, as a run before
\* left it; with rec, an empty one whose first n offers are recorded.
InitStoreN(clips, rec, n) ==
    /\ InitCommon(clips)
    /\ \E c \in 1..MaxCap : \E h \in ValidHist(Texts, c) :
         /\ rec => h = <<>>
         /\ max_size = c
         /\ hmax = c
         /\ hist = h
         /\ file = IF variant \in Persisting THEN ConfigOf(c, h) ELSE NoFile
    /\ track = rec
    /\ offers = <<>>
    /\ olimit = n

InitStore(clips, rec) == InitStoreN(clips, rec, MaxOffers)

\* The watcher on any such store, or on an empty one with its offers recorded.
InitOffers == \E rec \in BOOLEAN : InitStore(ClipValues(Texts), rec)

\* The UI on any such store; nothing is copied.
InitOps == InitStore({""}, FALSE)

\* --------------------------------------------------------------- watcher
\* In "qt" the poll is a timer callback of the UI's event loop: it does not
\* start while a handler runs, and no handler starts while it runs.  (At
\* "pi_copy" the handler has returned and its paste waits on a timer.)
WatcherMay == variant = "qt" => upc \in {"idle", "pi_copy"}
UIMay == variant = "qt" => wpc \in {"start", "idle"}

\* The read of the clipboard before the loop: last_saved is what is on the
\* clipboard now, or "" when the read fails.
WStart ==
    /\ wpc = "start"
    /\ WatcherMay
    /\ \E ok \in BOOLEAN : last_saved' = IF ok THEN clip ELSE ""
    /\ wpc' = "idle"
    /\ UNCHANGED <<ext, aux, variant, store, clip, file, wcur, uistate, picker, ghost>>

\* Mutant of Offered: the truth test of current is missing.
OfferedNoTruthTest(current, last) == current # last

\* The test at the top of the loop: while self.running (mm.py, tk_main.py);
\* the timer of check_clipboard is active (mmnn.py); while True (main.py).
LoopGoesOn == variant # "main" => running

\* The test of one poll: current and current != last_saved.
Offered(current, last) == current # "" /\ current # last

\* One poll up to the membership test: pc.paste() (a failed read is caught
\* and the poll ends), then the test above.
WPoll ==
    /\ wpc = "idle"
    /\ WatcherMay
    /\ LoopGoesOn
    /\ Offered(clip, last_saved)
    /\ track => Len(offers) < olimit
    /\ wcur' = clip
    /\ wpc' = "check"
    /\ offers' = IF track THEN Append(offers, clip) ELSE offers
    /\ UNCHANGED <<ext, aux, variant, store, clip, file, last_saved, uistate,
                   picker, track, olimit>>

\* Mutant of WCheck: a text already in the history is moved to the newest
\* position.
WCheckMoveToEnd ==
    /\ wpc = "check"
    /\ IF InSeq(wcur, hist)
       THEN /\ wpc' = "idle"
            /\ last_saved' = wcur
            /\ hist' = Append(RemoveFirst(hist, wcur), wcur)
       ELSE /\ wpc' = "append"
            /\ UNCHANGED <<last_saved, hist>>
    /\ UNCHANGED <<ext, aux, variant, max_size, hmax, clip, file, wcur, uistate, picker,
                   ghost>>

\* Mutant of WCheck: the membership test is missing, every offer is appended.
WCheckNoDedup ==
    /\ wpc = "check"
    /\ wpc' = "append"
    /\ UNCHANGED <<ext, aux, variant, store, clip, file, wcur, last_saved, uistate,
                   picker, ghost>>

\* Mutant of WCheck: last_saved is set only when the text is appended.
WCheckKeepsLastSaved ==
    /\ wpc = "check"
    /\ wpc' = IF InSeq(wcur, hist) THEN "idle" ELSE "append"
    /\ UNCHANGED <<ext, aux, variant, store, clip, file, wcur, last_saved, uistate,
                   picker, ghost>>

\* current not in clip_history; a text already there only updates last_saved.
WCheck ==
    /\ wpc = "check"
    /\ IF InSeq(wcur, hist)
       THEN /\ wpc' = "idle"
            /\ last_saved' = wcur
       ELSE /\ wpc' = "append"
            /\ UNCHANGED last_saved
    /\ UNCHANGED <<ext, aux, variant, store, clip, file, wcur, uistate, picker, ghost>>

\* clip_history.append(current); main.py then sets last_saved, the others
\* call save_config first.
WAppend ==
    /\ wpc = "append"
    /\ hist' = DequeAppend(hist, hmax, wcur)
    /\ IF variant \in Persisting
       THEN /\ wpc' = "save"
            /\ UNCHANGED last_saved
       ELSE /\ wpc' = "idle"
            /\ last_saved' = wcur
    /\ UNCHANGED <<ext, aux, variant, max_size, hmax, clip, file, wcur, uistate, picker,
                   ghost>>

\* save_config in the watcher (a failed write is caught and leaves the file),
\* then last_saved = current.
WSave ==
    /\ wpc = "save"
    /\ \E ok \in BOOLEAN :
         file' = IF ok THEN ConfigOf(max_size, hist) ELSE file
    /\ last_saved' = wcur
    /\ wpc' = "idle"
    /\ UNCHANGED <<ext, aux, variant, store, clip, wcur, uistate, picker, ghost>>

WatcherNext == WStart \/ WPoll \/ WCheck \/ WAppend \/ WSave

\* ----------------------------------------------------------- environment
\* The user copies a text elsewhere, or empties the clipboard.
Copy(T) ==
    /\ \E t \in ClipValues(T) :
         /\ clip' = t
         /\ pasted' = IF t = clip THEN pasted ELSE ""
         /\ gone' = IF t = clip THEN gone ELSE ""
    /\ UNCHANGED <<hot, running, snap, aux, variant, store, file, watcher, uistate,
                   picker, ghost>>

NextOffers == WatcherNext \/ Copy(Texts)

SpecOffers == InitOffers /\ [][NextOffers]_vars

\* The watcher of main.py (watch_clipboard) and of mmnn.py (check_clipboard)
\* on an empty store, its first RunOffers offers recorded.
InitRun ==
    /\ InitStoreN(ClipValues(Texts), TRUE, RunOffers)
    /\ variant \in {"main", "qt"}

SpecRun == InitRun /\ [][NextOffers]_vars

\* ------------------------------------------------------------ picker, UI
\* seq[i] for a Python index i (negative indexes count from the end);
\* InRange tells whether the index exists (IndexError otherwise).
InRange(s, i) == (0 <= i /\ i < Len(s)) \/ (i < 0 /\ -i <= Len(s))
PyIndex(s, i) == IF i >= 0 THEN s[i + 1] ELSE s[Len(s) + i + 1]

HasPicker == variant \in {"mm", "tk", "qt"}
HasSettings == variant \in {"tk", "qt"}

\* show_ui: one item frame per entry of reversed(list(clip_history)), the
\* first one selected.
ShowUI ==
    /\ HasPicker
    /\ upc = "idle"
    /\ UIMay
    /\ ~uiopen
    /\ uiopen' = TRUE
    /\ rows' = Reverse(hist)
    /\ sel' = 0
    /\ UNCHANGED <<ext, aux, variant, store, clip, file, watcher, uistate, ghost>>

\* close_ui (Escape, a click outside, the hotkey again).
CloseUI ==
    /\ upc = "idle"
    /\ UIMay
    /\ uiopen
    /\ uiopen' = FALSE
    /\ rows' = <<>>
    /\ sel' = 0
    /\ UNCHANGED <<ext, aux, variant, store, clip, file, watcher, uistate, ghost>>

\* select_item(i): Up, Down, or the mouse over item frame i.
SelectItem ==
    /\ upc = "idle"
    /\ UIMay
    /\ uiopen
    /\ \E i \in 0..(Len(rows) - 1) :
         /\ i # sel
         /\ sel' = i
    /\ UNCHANGED <<ext, aux, variant, store, clip, file, watcher, uistate, uiopen, rows,
                   ghost>>

\* The Delete key.  Tk: nothing without item frames, and only when
\* 0 <= selected_index[0] < len(clip_history); then
\* actual_idx = len(clip_history) - 1 - selected_index[0].  Qt: the index is
\* that of the selected item widget and is not tested against the length.
DelBegin ==
    /\ HasPicker
    /\ upc = "idle"
    /\ UIMay
    /\ uiopen
    /\ rows # <<>>
    /\ variant # "qt" => (0 <= sel /\ sel < Len(hist))
    /\ upc' = "del_read"
    /\ ul' = [ul EXCEPT !.idx = Len(hist) - 1 - sel]
    /\ UNCHANGED <<ext, aux, variant, store, clip, file, watcher, picker, ghost>>

\* text_to_remove = list(clip_history)[actual_idx]
DelRead ==
    /\ upc = "del_read"
    /\ IF InRange(hist, ul.idx)
       THEN /\ ul' = [ul EXCEPT !.text = PyIndex(hist, ul.idx)]
            /\ upc' = IF variant = "tk" THEN "del_snap" ELSE "del_remove"
       ELSE /\ upc' = "raised"
            /\ ul' = NoLocals
    /\ UNCHANGED <<ext, aux, variant, store, clip, file, watcher, picker, ghost>>

\* mm.py, mmnn.py: clip_history.remove(text_to_remove), in place; ValueError
\* when the text is not there, which ends the handler.
DelRemove ==
    /\ upc = "del_remove"
    /\ IF InSeq(ul.text, hist)
       THEN /\ hist' = RemoveFirst(hist, ul.text)
            /\ gone' = IF ul.text = clip THEN clip ELSE gone
            /\ upc' = "del_save"
            /\ UNCHANGED ul
       ELSE /\ upc' = "raised"
            /\ ul' = NoLocals
            /\ UNCHANGED <<hist, gone>>
    /\ UNCHANGED <<hot, running, snap, pasted, aux, variant, max_size, hmax, clip, file,
                   watcher, picker, ghost>>

\* tk_main.py: temp_list = list(clip_history); temp_list.remove(deleted)
DelSnap ==
    /\ upc = "del_snap"
    /\ IF InSeq(ul.text, hist)
       THEN /\ ul' = [ul EXCEPT !.tmp = RemoveFirst(hist, ul.text)]
            /\ upc' = "del_store"
       ELSE /\ upc' = "raised"
            /\ ul' = NoLocals
    /\ UNCHANGED <<ext, aux, variant, store, clip, file, watcher, picker, ghost>>

\* tk_main.py: clip_history = deque(temp_list, maxlen=max_size)
DelStore ==
    /\ upc = "del_store"
    /\ IF max_size >= 0
       THEN /\ hist' = DequeNew(ul.tmp, max_size)
            /\ hmax' = max_size
            /\ gone' = IF ul.text = clip THEN clip ELSE gone
            /\ upc' = "del_save"
            /\ UNCHANGED ul
       ELSE /\ upc' = "raised"
            /\ ul' = NoLocals
            /\ UNCHANGED <<hist, hmax, gone>>
    /\ UNCHANGED <<hot, running, snap, pasted, aux, variant, max_size, clip, file,
                   watcher, picker, ghost>>

\* After save_config in the Delete handler: the picker is closed and (Tk)
\* shown again at once; Qt schedules show_ui, which is ShowUI.
DelFinish ==
    /\ IF variant = "qt"
       THEN /\ uiopen' = FALSE
            /\ rows' = <<>>
       ELSE /\ uiopen' = TRUE
            /\ rows' = Reverse(hist)
    /\ sel' = 0
    /\ upc' = "idle"
    /\ ul' = NoLocals

\* save_config as one step (a failed write is caught and leaves the file),
\* then the rest of the Delete handler.
DelSave ==
    /\ upc = "del_save"
    /\ \E ok \in BOOLEAN :
         file' = IF ok THEN ConfigOf(max_size, hist) ELSE file
    /\ DelFinish
    /\ UNCHANGED <<ext, aux, variant, store, clip, watcher, ghost>>

\* A capacity change to n.  set_max_size raises ValueError for n <= 0 before
\* it assigns anything; the Tk settings Save assigns what the entry holds;
\* the Qt spin box only yields values of its positive range.
RsBegin(n) ==
    /\ variant \in {"main", "tk", "qt"}
    /\ upc = "idle"
    /\ UIMay
    /\ HasSettings => uiopen
    /\ variant = "qt" => n >= 1
    /\ IF variant = "main" /\ n <= 0
       THEN /\ upc' = "raised"
            /\ UNCHANGED <<max_size, ul>>
       ELSE /\ max_size' = n
            /\ upc' = "rs_build"
            /\ UNCHANGED ul
    /\ UNCHANGED <<ext, aux, variant, hist, hmax, clip, file, watcher, picker, ghost>>

\* deque(clip_history, maxlen=max_size): the new deque, not yet assigned.
RsBuild ==
    /\ upc = "rs_build"
    /\ IF max_size >= 0
       THEN /\ ul' = [ul EXCEPT !.tmp = DequeNew(hist, max_size)]
            /\ upc' = "rs_store"
       ELSE /\ upc' = "raised"
            /\ ul' = NoLocals
    /\ UNCHANGED <<ext, aux, variant, store, clip, file, watcher, picker, ghost>>

\* clip_history = <the new deque>
RsStore ==
    /\ upc = "rs_store"
    /\ hist' = ul.tmp
    /\ hmax' = max_size
    /\ IF variant = "main"
       THEN /\ upc' = "idle"
            /\ ul' = NoLocals
       ELSE /\ upc' = "rs_save"
            /\ UNCHANGED ul
    /\ UNCHANGED <<ext, aux, variant, max_size, clip, file, watcher, picker, ghost>>

\* After save_config in the settings Save: Tk destroys the settings window,
\* Qt also closes the picker.
RsFinish ==
    /\ IF variant = "qt"
       THEN /\ uiopen' = FALSE
            /\ rows' = <<>>
            /\ sel' = 0
       ELSE UNCHANGED picker
    /\ upc' = "idle"
    /\ ul' = NoLocals

\* save_config as one step, then the rest of the settings Save.
RsSave ==
    /\ upc = "rs_save"
    /\ \E ok \in BOOLEAN :
         file' = IF ok THEN ConfigOf(max_size, hist) ELSE file
    /\ RsFinish
    /\ UNCHANGED <<ext, aux, variant, store, clip, watcher, ghost>>

\* Mutant of ClrBegin: the newest entry is kept.
ClrBeginKeepsNewest ==
    /\ variant \in {"main", "tk", "qt"}
    /\ upc = "idle"
    /\ UIMay
    /\ HasSettings => uiopen
    /\ hist' = LastN(hist, 1)
    /\ gone' = IF InSeq(clip, hist) THEN clip ELSE gone
    /\ upc' = IF variant = "main" THEN "idle" ELSE "clr_save"
    /\ UNCHANGED <<hot, running, snap, pasted, aux, variant, max_size, hmax, clip, file,
                   watcher, ul, picker, ghost>>

\* clip_history.clear()
ClrBegin ==
    /\ variant \in {"main", "tk", "qt"}
    /\ upc = "idle"
    /\ UIMay
    /\ HasSettings => uiopen
    /\ hist' = <<>>
    /\ gone' = IF InSeq(clip, hist) THEN clip ELSE gone
    /\ upc' = IF variant = "main" THEN "idle" ELSE "clr_save"
    /\ UNCHANGED <<hot, running, snap, pasted, aux, variant, max_size, hmax, clip, file,
                   watcher, ul, picker, ghost>>

\* After save_config in clear_all: the settings window and the picker are
\* closed.
ClrFinish ==
    /\ uiopen' = FALSE
    /\ rows' = <<>>
    /\ sel' = 0
    /\ upc' = "idle"
    /\ UNCHANGED ul

\* save_config as one step, then the rest of clear_all.
ClrSave ==
    /\ upc = "clr_save"
    /\ \E ok \in BOOLEAN :
         file' = IF ok THEN ConfigOf(max_size, hist) ELSE file
    /\ ClrFinish
    /\ UNCHANGED <<ext, aux, variant, store, clip, watcher, ghost>>

\* The exception is reported (Tk prints the traceback of a callback, a
\* caller of set_max_size gets the ValueError); the rest of the handler did
\* not run.
Raised ==
    /\ upc = "raised"
    /\ upc' = "idle"
    /\ UNCHANGED <<ext, aux, variant, store, clip, file, watcher, ul, picker, ghost>>

\* Delete, settings Save and clear_all up to their call of save_config.
UIHandlers(cap) ==
    \/ DelBegin \/ DelRead \/ DelRemove \/ DelSnap \/ DelStore
    \/ (\E n \in Sizes(cap) : RsBegin(n)) \/ RsBuild \/ RsStore
    \/ ClrBegin \/ Raised

UISteps(cap) == ShowUI \/ CloseUI \/ SelectItem \/ UIHandlers(cap)

UINext(cap) == UISteps(cap) \/ DelSave \/ RsSave \/ ClrSave

\* The process ends (the watcher is a daemon thread) and is started again:
\* __init__ with load_config of the file as it is.
Restart ==
    /\ variant \in Persisting
    /\ LET c == LoadConfig(file) IN
         /\ max_size' = c.max_size
         /\ hist' = c.hist
         /\ hmax' = c.hmax
    /\ last_saved' = ""
    /\ wpc' = "start"
    /\ wcur' = ""
    /\ upc' = "idle"
    /\ ul' = NoLocals
    /\ uiopen' = FALSE
    /\ rows' = <<>>
    /\ sel' = 0
    /\ wcfg' = NoCfg
    /\ ucfg' = NoCfg
    /\ running' = TRUE
    /\ snap' = NoSnap
    /\ pasted' = ""
    /\ gone' = ""
    /\ needs_show_ui' = FALSE
    /\ needs_paste_latest' = FALSE
    /\ mpc' = "test_show"
    /\ pend_show' = ""
    /\ pend_paste' = ""
    /\ UNCHANGED <<variant, clip, file, ghost, nfail, sfail>>

Next == WatcherNext \/ UINext(RaceCap) \/ Copy(TextsOf(RaceTexts)) \/ Restart

Spec == Init /\ [][Next]_vars

\* The handlers of the UI alone, one after the other, on any store.
NextOps == UINext(MaxCap)

SpecOps == InitOps /\ [][NextOps]_vars

\* ------------------------------------------- save_config, statement-wise
\* Above, save_config is one step.  Here it is the three statements between
\* which another thread can run: the dictionary is built from max_size and
\* list(clip_history); open(CONFIG_FILE, 'w') truncates the file; json.dump
\* and the close put the document at offset 0.  An exception of open or of
\* the write is caught inside save_config and the caller goes on.

\* save_config in the watcher: config = {...}
WSaveSnap ==
    /\ wpc = "save"
    /\ wcfg.st = "none"
    /\ wcfg' = [st |-> "open", max_size |-> max_size, history |-> hist]
    /\ UNCHANGED <<ext, variant, store, clip, file, watcher, uistate, picker, ghost,
                   ucfg, nfail, sfail>>

\* The watcher after save_config: last_saved = current, next iteration.
WSaveFinish ==
    /\ wcfg' = NoCfg
    /\ last_saved' = wcur
    /\ wpc' = "idle"

\* Mutant of WSaveOpen: the exception of open leaves save_config and ends
\* the iteration in the except clause of the loop.
WSaveOpenRaises ==
    /\ wpc = "save"
    /\ wcfg.st = "open"
    /\ \E ok \in BOOLEAN :
         IF ok
         THEN /\ file' = Truncated
              /\ wcfg' = [wcfg EXCEPT !.st = "write"]
              /\ UNCHANGED <<wpc, last_saved, sfail>>
         ELSE /\ sfail' = TRUE
              /\ wcfg' = NoCfg
              /\ wpc' = "idle"
              /\ UNCHANGED <<file, last_saved>>
    /\ UNCHANGED <<ext, variant, store, clip, wcur, uistate, picker, ghost, ucfg,
                   nfail>>

\* save_config in the watcher: open(CONFIG_FILE, 'w')
WSaveOpen ==
    /\ wpc = "save"
    /\ wcfg.st = "open"
    /\ \E ok \in BOOLEAN :
         IF ok
         THEN /\ file' = Truncated
              /\ wcfg' = [wcfg EXCEPT !.st = "write"]
              /\ UNCHANGED <<wpc, last_saved, sfail>>
         ELSE /\ sfail' = TRUE
              /\ WSaveFinish
              /\ UNCHANGED file
    /\ UNCHANGED <<ext, variant, store, clip, wcur, uistate, picker, ghost, ucfg,
                   nfail>>

\* save_config in the watcher: json.dump(config, f, indent=2) and the close
WSaveWrite ==
    /\ wpc = "save"
    /\ wcfg.st = "write"
    /\ \E ok \in BOOLEAN :
         /\ file' = IF ok THEN WriteAt0(file, wcfg.max_size, wcfg.history)
                         ELSE file
         /\ sfail' = (sfail \/ ~ok)
    /\ WSaveFinish
    /\ UNCHANGED <<ext, variant, store, clip, wcur, uistate, picker, ghost, ucfg,
                   nfail>>

\* Mutant of WPollFail: the exception ends the loop.
WPollFailStops ==
    /\ wpc = "idle"
    /\ LoopGoesOn
    /\ nfail < MaxFails
    /\ nfail' = nfail + 1
    /\ wpc' = "stopped"
    /\ UNCHANGED <<ext, variant, store, clip, file, wcur, last_saved, uistate,
                   picker, ghost, wcfg, ucfg, sfail>>

\* pc.paste() raises in the poll: the except clause ends the iteration.
WPollFail ==
    /\ wpc = "idle"
    /\ LoopGoesOn
    /\ WatcherMay
    /\ nfail < MaxFails
    /\ nfail' = nfail + 1
    /\ UNCHANGED <<ext, variant, store, clip, file, watcher, uistate, picker, ghost,
                   wcfg, ucfg, sfail>>

WatcherSteps ==
    WStart \/ WPoll \/ WCheck \/ WAppend \/ WSaveSnap \/ WSaveOpen \/ WSaveWrite

\* The handlers that call save_config, at that call.
SavePcs == {"del_save", "rs_save", "clr_save"}

\* The rest of the handler after save_config.
UFinish ==
    /\ ucfg' = NoCfg
    /\ IF upc = "del_save" THEN DelFinish
       ELSE IF upc = "rs_save" THEN RsFinish
       ELSE ClrFinish

\* save_config in a handler: config = {...}
USaveSnap ==
    /\ upc \in SavePcs
    /\ ucfg.st = "none"
    /\ ucfg' = [st |-> "open", max_size |-> max_size, history |-> hist]
    /\ UNCHANGED <<ext, variant, store, clip, file, watcher, uistate, picker, ghost,
                   wcfg, nfail, sfail>>

\* save_config in a handler: open(CONFIG_FILE, 'w')
USaveOpen ==
    /\ upc \in SavePcs
    /\ ucfg.st = "open"
    /\ \E ok \in BOOLEAN :
         IF ok
         THEN /\ file' = Truncated
              /\ ucfg' = [ucfg EXCEPT !.st = "write"]
              /\ UNCHANGED <<uistate, picker, sfail>>
         ELSE /\ sfail' = TRUE
              /\ UFinish
              /\ UNCHANGED file
    /\ UNCHANGED <<ext, variant, store, clip, watcher, ghost, wcfg, nfail>>

\* save_config in a handler: json.dump(config, f, indent=2) and the close
USaveWrite ==
    /\ upc \in SavePcs
    /\ ucfg.st = "write"
    /\ \E ok \in BOOLEAN :
         /\ file' = IF ok THEN WriteAt0(file, ucfg.max_size, ucfg.history)
                         ELSE file
         /\ sfail' = (sfail \/ ~ok)
    /\ UFinish
    /\ UNCHANGED <<ext, variant, store, clip, watcher, ghost, wcfg, nfail>>

\* The watcher thread and the UI thread of a persisting front-end, with
\* save_config statement-wise.  (The picker shows at most SaveCap rows; with
\* one row there is no other item to select.)
InitSave == InitStarted(TextsOf(SaveTexts), SaveCap) /\ variant \in Persisting

NextSave ==
    \/ WatcherSteps
    \/ ShowUI \/ CloseUI \/ UIHandlers(SaveCap)
    \/ USaveSnap \/ USaveOpen \/ USaveWrite
    \/ Copy(TextsOf(SaveTexts))

SpecSave == InitSave /\ [][NextSave]_vars

\* ------------------------------------------------------ the watcher alone
\* The watcher of any front-end with save_config statement-wise and reads
\* that fail, while the user copies texts ...
InitWatch == InitStarted(TextsOf(WatchTexts), WatchCap)

NextWatch == WatcherSteps \/ WPollFail \/ Copy(TextsOf(WatchTexts))

SpecWatch == InitWatch /\ [][NextWatch]_vars

\* ------------------------------------------------------------------- stop
\* stop(): self.running = False; mmnn.py also stops the timer that calls
\* check_clipboard, so that its watcher has ended.  main.py has no stop():
\* its loop is "while True" and reads nothing a caller could set, so there
\* running only records that the owner asked the watcher to stop.
Stop ==
    /\ running
    /\ upc = "idle"
    /\ UIMay
    /\ wpc # "start"
    /\ running' = FALSE
    /\ upc' = IF variant \in Persisting THEN "stop_save" ELSE "idle"
    /\ wpc' = IF variant = "qt" THEN "stopped" ELSE wpc
    /\ UNCHANGED <<hot, snap, marks, aux, variant, store, clip, file, wcur, last_saved,
                   ul, picker, ghost>>

\* stop(), its last statement: save_config (as one step; a failed write is
\* caught), after which the process exits.
StopSave ==
    /\ upc = "stop_save"
    /\ \E ok \in BOOLEAN :
         file' = IF ok THEN ConfigOf(max_size, hist) ELSE file
    /\ upc' = "exited"
    /\ UNCHANGED <<ext, aux, variant, store, clip, watcher, ul, picker, ghost>>

\* while self.running: the test fails and watch_clipboard returns.
WExit ==
    /\ wpc = "idle"
    /\ variant \in {"mm", "tk"}
    /\ ~running
    /\ wpc' = "stopped"
    /\ UNCHANGED <<ext, aux, variant, store, clip, file, wcur, last_saved, uistate,
                   picker, ghost>>

\* The watcher of any front-end and a stop request, while the user copies
\* texts.
NextStop ==
    WatcherNext \/ WPollFail \/ Stop \/ StopSave \/ WExit
    \/ Copy(TextsOf(WatchTexts))

SpecStop == InitWatch /\ [][NextStop]_vars

\* The watcher thread is scheduled again and again.
FairStop == SpecStop /\ WF_vars(WatcherNext \/ WExit)

\* ... and while the clipboard keeps what it held at the start.
NextStartup == WatcherSteps \/ WPollFail

SpecStartup == InitWatch /\ [][NextStartup]_vars

\* No poll and no handler is in progress.
Quiescent == wpc = "idle" /\ upc = "idle"

\* ------------------------------------------------- save, then a new start
\* save_config called on its own (stop() does so), as one step.
SaveConfig ==
    /\ variant \in Persisting
    /\ Quiescent \/ wpc = "start"
    /\ upc = "idle"
    /\ \E ok \in BOOLEAN :
         file' = IF ok THEN ConfigOf(max_size, hist) ELSE file
    /\ UNCHANGED <<ext, aux, variant, store, clip, watcher, uistate, picker, ghost>>

\* A manager whose store is any store of capacity c > 0 (the default one
\* included) with at most c distinct entries, and no file yet.
InitPersist ==
    /\ InitCommon({""})
    /\ variant \in Persisting
    /\ \E c \in (1..MaxCap) \cup {DefaultMaxSize} :
         \E h \in ValidHist(Texts, MaxCap) :
           /\ Len(h) <= c
           /\ max_size = c
           /\ hmax = c
           /\ hist = h
    /\ file = NoFile
    /\ track = FALSE
    /\ offers = <<>>
    /\ olimit = MaxOffers

NextPersist == SaveConfig \/ Restart

SpecPersist == InitPersist /\ [][NextPersist]_vars

\* ----------------------------------------------------------------- paste
\* pc.copy(text): the OS clipboard holds text.
PcCopy(text) ==
    /\ clip' = text
    /\ pasted' = IF InSeq(text, hist) THEN text ELSE ""
    /\ gone' = IF text = clip THEN gone ELSE ""

\* Mutant of PlRead: the oldest entry is taken.
PlReadOldest ==
    /\ HasPicker
    /\ upc = "idle"
    /\ UIMay
    /\ IF hist # <<>>
       THEN /\ ul' = [ul EXCEPT !.text = hist[1]]
            /\ upc' = "pl_copy"
       ELSE UNCHANGED uistate
    /\ UNCHANGED <<ext, aux, variant, store, clip, file, watcher, picker, ghost>>

\* paste_latest: if self.clip_history: latest = list(self.clip_history)[-1]
\* (nothing is done on an empty history).
PlRead ==
    /\ HasPicker
    /\ upc = "idle"
    /\ UIMay
    /\ IF hist # <<>>
       THEN /\ ul' = [ul EXCEPT !.text = hist[Len(hist)]]
            /\ upc' = "pl_copy"
       ELSE UNCHANGED uistate
    /\ UNCHANGED <<ext, aux, variant, store, clip, file, watcher, picker, ghost>>

\* paste_text(latest): pc.copy(latest) puts the text on the OS clipboard
\* (the key presses that follow touch nothing of the manager).
PlCopy ==
    /\ upc = "pl_copy"
    /\ PcCopy(ul.text)
    /\ upc' = "idle"
    /\ ul' = NoLocals
    /\ UNCHANGED <<hot, running, snap, aux, variant, store, file, watcher, picker,
                   ghost>>

\* paste_item(selected_index[0]) (Return, or a click on the selected row).
\* Tk: only when 0 <= idx < len(clip_history); then
\* actual_idx = len(clip_history) - 1 - idx.  Qt: no test of the index.
PiBegin ==
    /\ HasPicker
    /\ upc = "idle"
    /\ UIMay
    /\ uiopen
    /\ rows # <<>>
    /\ IF variant = "qt" \/ (0 <= sel /\ sel < Len(hist))
       THEN /\ upc' = "pi_read"
            /\ ul' = [ul EXCEPT !.idx = Len(hist) - 1 - sel]
       ELSE UNCHANGED uistate
    /\ UNCHANGED <<ext, aux, variant, store, clip, file, watcher, picker, ghost>>

\* text = list(clip_history)[actual_idx], then close_ui (the picker is gone).
PiRead ==
    /\ upc = "pi_read"
    /\ IF InRange(hist, ul.idx)
       THEN /\ ul' = [ul EXCEPT !.text = PyIndex(hist, ul.idx)]
            /\ upc' = "pi_copy"
            /\ uiopen' = FALSE
            /\ rows' = <<>>
            /\ sel' = 0
       ELSE /\ upc' = "raised"
            /\ ul' = NoLocals
            /\ UNCHANGED picker
    /\ UNCHANGED <<ext, aux, variant, store, clip, file, watcher, ghost>>

\* After the sleep (Tk) or on the 50 ms timer (Qt, a callback of the event
\* loop): paste_text(text) or pc.copy(text) puts the text on the clipboard.
PiCopy ==
    /\ upc = "pi_copy"
    /\ UIMay
    /\ PcCopy(ul.text)
    /\ upc' = "idle"
    /\ ul' = NoLocals
    /\ UNCHANGED <<hot, running, snap, aux, variant, store, file, watcher, picker,
                   ghost>>

\* The watcher and the picker of a front-end that has one: show, select,
\* paste and paste_latest, while the user copies texts ...
InitPicker == InitStarted(TextsOf(RaceTexts), RaceCap) /\ HasPicker

NextPaste ==
    \/ WatcherNext
    \/ ShowUI \/ CloseUI \/ SelectItem
    \/ PiBegin \/ PiRead \/ PiCopy \/ PlRead \/ PlCopy
    \/ Copy(TextsOf(RaceTexts))

SpecPaste == InitPicker /\ [][NextPaste]_vars

\* ... and with delete and clear.
NextPicker ==
    \/ NextPaste
    \/ DelBegin \/ DelRead \/ DelRemove \/ DelSnap \/ DelStore \/ DelSave
    \/ ClrBegin \/ ClrSave \/ Raised

SpecPicker == InitPicker /\ [][NextPicker]_vars

\* The watcher on an empty store with its offers recorded, the user copying
\* texts, and paste_latest.
InitLatest == InitStore(ClipValues(Texts), TRUE)

NextLatest == WatcherNext \/ Copy(Texts) \/ PlRead \/ PlCopy

SpecLatest == InitLatest /\ [][NextLatest]_vars

\* --------------------------------------------------------------- hotkeys
\* The hotkey thread (pynput): _request_show_ui sets needs_show_ui = True.
HotkeyShow ==
    /\ HasPicker
    /\ needs_show_ui' = TRUE
    /\ pend_show' = mpc
    /\ UNCHANGED <<needs_paste_latest, mpc, pend_paste, running, snap, marks, aux,
                   variant, store, clip, file, watcher, uistate, picker, ghost>>

\* _request_paste_latest sets needs_paste_latest = True (mmnn.py registers
\* no hotkey for it).
HotkeyPaste ==
    /\ variant \in {"mm", "tk"}
    /\ needs_paste_latest' = TRUE
    /\ pend_paste' = mpc
    /\ UNCHANGED <<needs_show_ui, mpc, pend_show, running, snap, marks, aux,
                   variant, store, clip, file, watcher, uistate, picker, ghost>>

\* What a step of the main loop leaves alone besides the flags.
MFrame ==
    UNCHANGED <<running, snap, aux, variant, store, file, watcher, uistate,
                ghost>>

\* if manager.needs_show_ui:
MTestShow ==
    /\ mpc = "test_show"
    /\ mpc' = IF needs_show_ui THEN "reset_show" ELSE "test_paste"
    /\ MFrame
    /\ UNCHANGED <<needs_show_ui, needs_paste_latest, pend_show, pend_paste,
                   marks, clip, picker>>

\* manager.needs_show_ui = False
MResetShow ==
    /\ mpc = "reset_show"
    /\ needs_show_ui' = FALSE
    /\ mpc' = "toggle"
    /\ MFrame
    /\ UNCHANGED <<needs_paste_latest, pend_show, pend_paste, marks, clip,
                   picker>>

\* manager.toggle_ui() is called (show_ui() in mmnn.py).
MToggleBegin ==
    /\ mpc = "toggle"
    /\ pend_show' = ""
    /\ mpc' = "toggling"
    /\ MFrame
    /\ UNCHANGED <<needs_show_ui, needs_paste_latest, pend_paste, marks, clip,
                   picker>>

\* What toggle_ui does to the picker.  Tk: close_ui when it is open, show_ui
\* otherwise.  Qt: show_ui closes a visible picker and then builds a new one.
ToggleUI ==
    IF variant # "qt" /\ uiopen
    THEN /\ uiopen' = FALSE
         /\ rows' = <<>>
         /\ sel' = 0
    ELSE /\ uiopen' = TRUE
         /\ rows' = Reverse(hist)
         /\ sel' = 0

\* Mutant of MToggleEnd: the flag is reset after toggle_ui instead of before.
MToggleEndResets ==
    /\ mpc = "toggling"
    /\ ToggleUI
    /\ needs_show_ui' = FALSE
    /\ mpc' = "test_paste"
    /\ MFrame
    /\ UNCHANGED <<needs_paste_latest, pend_show, pend_paste, marks, clip>>

\* toggle_ui returns.
MToggleEnd ==
    /\ mpc = "toggling"
    /\ ToggleUI
    /\ mpc' = "test_paste"
    /\ MFrame
    /\ UNCHANGED <<needs_show_ui, needs_paste_latest, pend_show, pend_paste,
                   marks, clip>>

\* if manager.needs_paste_latest:  (otherwise the sleep, and the next turn)
MTestPaste ==
    /\ mpc = "test_paste"
    /\ mpc' = IF needs_paste_latest THEN "reset_paste" ELSE "test_show"
    /\ MFrame
    /\ UNCHANGED <<needs_show_ui, needs_paste_latest, pend_show, pend_paste,
                   marks, clip, picker>>

\* manager.needs_paste_latest = False
MResetPaste ==
    /\ mpc = "reset_paste"
    /\ needs_paste_latest' = FALSE
    /\ mpc' = "paste"
    /\ MFrame
    /\ UNCHANGED <<needs_show_ui, pend_show, pend_paste, marks, clip, picker>>

\* manager.paste_latest(), then the sleep and the next turn of the loop.
MPaste ==
    /\ mpc = "paste"
    /\ pend_paste' = ""
    /\ IF hist # <<>> THEN PcCopy(hist[Len(hist)])
       ELSE UNCHANGED <<clip, marks>>
    /\ mpc' = "test_show"
    /\ MFrame
    /\ UNCHANGED <<needs_show_ui, needs_paste_latest, pend_show, picker>>

MainLoop ==
    \/ MTestShow \/ MResetShow \/ MToggleBegin \/ MToggleEnd
    \/ MTestPaste \/ MResetPaste \/ MPaste

\* The hotkey thread and the main loop, on the store the start loaded.
NextHotkey == HotkeyShow \/ HotkeyPaste \/ MainLoop

SpecHotkey == InitPicker /\ [][NextHotkey]_vars

\* The main loop runs for ever: "while True" with a sleep of 50 ms, and the
\* timer of check_hotkeys every 50 ms.
FairHotkey == SpecHotkey /\ WF_vars(MainLoop)

\* -------------------------------------------------------------- snapshot
\* Mutant of GetHistory: the history object itself is returned.
GetHistoryAlias ==
    /\ upc = "idle"
    /\ snap' = [held |-> TRUE, alias |-> TRUE, items |-> hist]
    /\ UNCHANGED <<hot, running, marks, aux, variant, store, clip, file, watcher,
                   uistate, picker, ghost>>

\* get_history(): return list(clip_history), a new list, oldest first (the
\* picker and save_config take the same copy).
GetHistory ==
    /\ upc = "idle"
    /\ snap' = [held |-> TRUE, alias |-> FALSE, items |-> hist]
    /\ UNCHANGED <<hot, running, marks, aux, variant, store, clip, file, watcher,
                   uistate, picker, ghost>>

\* What a caller can do to a list: append a text, remove one entry, clear.
Mutations(s) ==
    {Append(s, t) : t \in Texts} \cup {RemoveFirst(s, t) : t \in Texts}
    \cup {<<>>}

\* The caller changes the list it got; the history changes with it only
\* when the list is the history object.
MutateSnap ==
    /\ snap.held
    /\ \E m \in Mutations(snap.items) :
         /\ m # snap.items
         /\ Len(m) <= MaxCap
         /\ snap' = [snap EXCEPT !.items = m]
         /\ hist' = IF snap.alias THEN m ELSE hist
    /\ UNCHANGED <<hot, running, marks, aux, variant, max_size, hmax, clip, file,
                   watcher, uistate, picker, ghost>>

\* A caller of get_history on any store; nothing else runs.
NextSnap == GetHistory \/ MutateSnap

SpecSnap == InitOps /\ [][NextSnap]_vars

\* ================================================================ claims

\* C1: capacity invariant under offers.  From any store with capacity c > 0
\* and at most c entries, the history never holds more than max_size entries
\* in any state of any sequence of watcher offers.
C1_CapacityUnderOffers == Len(hist) <= max_size

\* More distinct texts than the capacity were offered to an empty store, and
\* the history is at its capacity.
C1_Witness ==
    /\ track
    /\ wpc = "idle"
    /\ NoDup(offers)
    /\ Len(offers) > max_size
    /\ max_size >= 2
    /\ Len(hist) = max_size

\* C2: uniqueness invariant.  In every reachable state the history holds no
\* two equal strings.
C2_Unique == NoDup(hist)

\* C3: no lost update.  The text the watcher has just appended (it has not
\* yet finished its poll) is still in the history after the step by which a
\* concurrent delete of another text, or a capacity change to n >= 1,
\* assigns the rebuilt history.
C3_NoLostUpdate ==
    [][((\/ upc = "del_store" /\ upc' = "del_save" /\ wcur # ul.text
         \/ upc = "rs_store" /\ upc' # "rs_store" /\ max_size >= 1)
        /\ wpc = "save" /\ wpc' = "save" /\ InSeq(wcur, hist))
       => InSeq(wcur, hist')]_vars

SetOf(s) == {s[i] : i \in 1..Len(s)}

C5_RejectNonPositive ==
    [][(\E n \in Sizes(RaceCap) : n <= 0 /\ RsBegin(n))
       => (upc' = "raised" /\ max_size' = max_size /\ hist' = hist)]_vars

\* C6: dedup without reorder.  The offer of a text that is already in the
\* history (the poll that reads it, then its membership test) leaves the
\* history as it is, entries and order, and does not go on to the append.
C6_DedupNoReorder ==
    [][(/\ wpc \in {"idle", "check"}
        /\ wpc' # wpc
        /\ InSeq(IF wpc = "idle" THEN clip ELSE wcur, hist))
       => (hist' = hist /\ wpc' # "append")]_vars

\* a, b, a were offered to an empty store: the history is [a, b].
C6_Witness ==
    /\ track
    /\ wpc = "idle"
    /\ Len(offers) = 3
    /\ offers[3] = offers[1]
    /\ offers[2] # offers[1]
    /\ max_size >= 2
    /\ hist = <<offers[1], offers[2]>>
    /\ last_saved = offers[3]

\* C7: eviction order.  The append of a new text to a full history puts it
\* last and removes exactly the first entry; the others keep their order.
C7_EvictionOrder ==
    [][(wpc = "append" /\ wpc' # "append" /\ Len(hist) = max_size)
       => (/\ Len(hist') = max_size
           /\ hist'[max_size] = wcur
           /\ \A i \in 1..(max_size - 1) : hist'[i] = hist[i + 1])]_vars

\* The watcher has just appended to a full history of three entries, which
\* the file still shows.
C7_Witness ==
    /\ wpc = "save"
    /\ max_size = 3
    /\ file.exists
    /\ Len(file.history) = 3
    /\ ~InSeq(wcur, file.history)
    /\ hist = <<file.history[2], file.history[3], wcur>>

\* C8: resize shrink retains newest.  A capacity change to n with
\* 0 < n < len(history) sets the capacity to n and leaves exactly the last n
\* entries of the history, in their order.
C8_ShrinkKeepsNewest ==
    [][/\ \A n \in Sizes(MaxCap) :
            (0 < n /\ n < Len(hist) /\ RsBegin(n))
            => (max_size' = n /\ upc' = "rs_build" /\ hist' = hist)
       /\ (upc = "rs_build" /\ 0 < max_size /\ max_size < Len(hist))
            => (upc' = "rs_store" /\ hist' = hist)
       /\ (upc = "rs_store" /\ 0 < max_size /\ max_size < Len(hist))
            => (/\ max_size' = max_size
                /\ hmax' = max_size
                /\ Len(hist') = max_size
                /\ \A i \in 1..max_size :
                     hist'[i] = hist[Len(hist) - max_size + i])]_vars

\* A history of three entries, which the file still shows, was resized to 2.
C8_Witness ==
    /\ upc = "rs_save"
    /\ max_size = 2
    /\ hmax = 2
    /\ file.exists
    /\ Len(file.history) = 3
    /\ hist = <<file.history[2], file.history[3]>>

\* C9: the empty string is never stored.  No entry of the history is the
\* empty string, in any reachable state (after a start from a saved file
\* too), and the watcher never goes on to offer an empty clipboard.
C9_NoEmptyStored ==
    /\ \A i \in 1..Len(hist) : hist[i] # ""
    /\ wpc \in {"check", "append", "save"} => wcur # ""

\* The clipboard was emptied after a text was recorded; the watcher polls.
C9_Witness ==
    /\ clip = ""
    /\ wpc = "idle"
    /\ last_saved # ""
    /\ InSeq(last_saved, hist)

\* C10: remove is a no-op on absence.  The removal of a text that is not in
\* the history (a watcher append evicted it after the handler read it)
\* leaves the history unchanged and raises no error.
C10_RemoveAbsentNoError ==
    [][((DelRemove \/ DelSnap) /\ ~InSeq(ul.text, hist))
       => (hist' = hist /\ upc' # "raised")]_vars

\* The entries of s other than x, in their order.
Without(s, x) == SelectSeq(s, LAMBDA y : y # x)

\* C11: remove of a present text.  Once the Delete handler has read a text
\* that is in the history, its next steps remove exactly that entry (the
\* text is absent, the others keep their order), leave the capacity as it
\* is, and reach save_config, which writes the new state unless the write
\* fails.
C11_RemovePresent ==
    [][/\ (upc = "del_remove" /\ InSeq(ul.text, hist))
            => (/\ hist' = Without(hist, ul.text)
                /\ max_size' = max_size
                /\ upc' = "del_save")
       /\ (upc = "del_snap" /\ InSeq(ul.text, hist))
            => (upc' = "del_store" /\ ul'.tmp = Without(hist, ul.text))
       /\ upc = "del_store"
            => (/\ hist' = ul.tmp
                /\ ~InSeq(ul.text, hist')
                /\ max_size' = max_size
                /\ upc' = "del_save")
       /\ upc = "del_save"
            => (file' = ConfigOf(max_size, hist) \/ file' = file)]_vars

\* C12: flush after every mutation.  Whenever no poll and no handler is in
\* progress and no save_config has failed, the file holds the max_size and
\* the history of the memory (or no file exists and the store is at its
\* defaults), whatever the interleaving of the watcher's appends with the
\* handlers.
C12_FileIsMemory ==
    (Quiescent /\ ~sfail)
    => \/ file = ConfigOf(max_size, hist)
       \/ ~file.exists /\ max_size = DefaultMaxSize /\ hist = <<>>

\* C13: no interleaved partial writes.  Whenever no save_config is between
\* its open and its close and none has failed, the file, if it exists, is
\* the whole document of one save_config call.
C13_WholeDocument ==
    (wcfg.st # "write" /\ ucfg.st # "write" /\ ~sfail /\ file.exists)
    => Parses(file)

\* C14: no torn resize.  In no state that the watcher thread (and a
\* save_config it runs) can observe during a capacity change to n >= 1 does
\* max_size hold the new capacity while the history holds more than
\* max_size entries.
C14_NoTornResize ==
    (upc \in {"rs_build", "rs_store"} /\ WatcherMay /\ max_size >= 1)
    => Len(hist) <= max_size

\* C15: persisted file schema.  Every file that save_config has written has
\* max_size > 0 and a history of at most max_size entries (in the order of
\* the history, oldest first).
C15_FileSchema ==
    file.exists => (file.max_size > 0 /\ Len(file.history) <= file.max_size)

\* C16: round-trip persistence.  For a store with capacity > 0 and at most
\* capacity distinct non-empty entries, a new manager that loads the file
\* save_config wrote from it has the same max_size and the same history in
\* the same order.
C16_RoundTrip ==
    [][(/\ Restart
        /\ file = ConfigOf(max_size, hist)
        /\ max_size > 0
        /\ Len(hist) <= max_size
        /\ NoDup(hist)
        /\ \A i \in 1..Len(hist) : hist[i] # "")
       => (max_size' = max_size /\ hist' = hist /\ hmax' = max_size)]_vars

\* A full store of MaxCap entries, saved: the state a new start loads.
C16_Witness ==
    /\ file.exists
    /\ Parses(file)
    /\ file.max_size = max_size
    /\ file.history = hist
    /\ Len(hist) = MaxCap
    /\ max_size = MaxCap

\* C17: load failure falls back to the default store.  When load_config
\* fails at a start, the store of the new manager is entirely at its
\* defaults (max_size 100, empty history): no field comes from the bad file.
C17_LoadFallback ==
    [][(Restart /\ LoadFails(file))
       => (/\ max_size' = DefaultMaxSize
           /\ hist' = <<>>
           /\ hmax' = DefaultMaxSize)]_vars

\* A save_config of the watcher fails in this step: open raises, or the
\* write raises and the file stays as open left it.
WSaveFails ==
    /\ wpc = "save"
    /\ wcfg'.st = "none"
    /\ \/ wcfg.st = "open"
       \/ wcfg.st = "write" /\ file' = file

\* C18: save failure is best-effort.  A failing save_config leaves the
\* history and max_size at their mutated values and the watcher finishes
\* its iteration (last_saved is set, the loop goes on); a save_config that
\* writes the file writes the history and max_size the memory holds.
C18_SaveBestEffort ==
    [][/\ WSaveFails
            => (/\ hist' = hist
                /\ max_size' = max_size
                /\ InSeq(wcur, hist')
                /\ last_saved' = wcur
                /\ wpc' = "idle")
       /\ (wpc = "save" /\ wcfg.st = "write" /\ file' # file)
            => file' = ConfigOf(max_size, hist)]_vars

\* From no file: the save of the first text failed, the save of the second
\* one wrote both.
C18_Witness ==
    /\ sfail
    /\ wpc = "idle"
    /\ max_size = DefaultMaxSize
    /\ Len(hist) = 2
    /\ file = ConfigOf(max_size, hist)

\* C19: pre-existing clipboard content is never recorded.  While the
\* clipboard keeps the text it held when the watcher started, no poll adds
\* an entry to the history, also when the read at the start failed.
C19_PreexistingNotRecorded == [][hist' = hist]_vars

\* C20: clipboard read failures never stop the watcher.  A poll whose read
\* fails changes neither the history nor last_saved (nor the file), and the
\* watcher is at the top of its loop again.
C20_ReadFailureContinues ==
    [][(nfail' # nfail)
       => (/\ hist' = hist
           /\ max_size' = max_size
           /\ last_saved' = last_saved
           /\ file' = file
           /\ wpc' = "idle")]_vars

\* After reads that failed, a poll has read a new text and recorded it.
C20_Witness ==
    /\ nfail = MaxFails
    /\ wpc = "idle"
    /\ last_saved # ""
    /\ last_saved = clip
    /\ hist # <<>>
    /\ hist[Len(hist)] = last_saved
    /\ ~file.exists \/ ~InSeq(last_saved, file.history)

\* C21: cooperative cancellation.  Every watcher supports a stop request:
\* once stop is requested, the watcher starts no new poll after the one in
\* progress.
C21_NoPollAfterStop == [][~running => ~(wpc = "idle" /\ wpc' = "check")]_vars

\* C22: the snapshot is a read-only, oldest-first copy.  get_history returns
\* the entries in the history's order, most recent last; neither taking the
\* snapshot nor changing the returned list changes the history, max_size or
\* last_saved.
C22_SnapshotReadOnly ==
    [][/\ GetHistory => snap'.items = hist
       /\ (GetHistory \/ MutateSnap) =>
             UNCHANGED <<hist, hmax, max_size, last_saved>>]_vars

\* A snapshot of a history of two entries was taken and then changed.
C22_Witness ==
    /\ snap.held
    /\ Len(hist) = 2
    /\ snap.items # hist

\* One offer of text t to a history h of capacity c, as the contract states
\* it: skipped when t is empty or already present, otherwise appended, and
\* only the last c entries are kept.
OfferTo(h, c, t) ==
    IF t = "" \/ InSeq(t, h) THEN h ELSE LastN(Append(h, t), c)

\* The text of the last offer of seq that was appended ("" when none was),
\* offering seq to the history h of capacity c.
RECURSIVE LastAppended(_, _, _, _)
LastAppended(h, c, seq, cur) ==
    IF seq = <<>> THEN cur
    ELSE LET h2 == OfferTo(h, c, Head(seq)) IN
         LastAppended(h2, c, Tail(seq), IF h2 # h THEN Head(seq) ELSE cur)

\* The history after the offers of seq to the history h of capacity c.
RECURSIVE FoldOffers(_, _, _)
FoldOffers(h, c, seq) ==
    IF seq = <<>> THEN h
    ELSE FoldOffers(OfferTo(h, c, Head(seq)), c, Tail(seq))

\* The recorded offers whose poll has passed its append.
OffersDone ==
    IF wpc \in {"check", "append"}
    THEN SubSeq(offers, 1, Len(offers) - 1) ELSE offers

\* C23: latest returns the newest entry.  paste_latest puts on the clipboard
\* the last entry of the history, which is the most recently appended text
\* still in the history, and does nothing when the history is empty.
C23_LatestIsNewest ==
    [][/\ PlRead =>
            IF hist = <<>> THEN UNCHANGED <<clip, upc, ul>>
            ELSE /\ ul'.text = hist[Len(hist)]
                 /\ ul'.text = LastAppended(<<>>, max_size, OffersDone, "")
                 /\ upc' = "pl_copy"
       /\ PlCopy => clip' = ul.text]_vars

\* paste_latest has read the newest of two entries, and the last text
\* offered was a repeat of the older one.
C23_Witness ==
    /\ upc = "pl_copy"
    /\ wpc = "idle"
    /\ Len(hist) = 2
    /\ ul.text = hist[2]
    /\ offers # <<>>
    /\ offers[Len(offers)] = hist[1]

C25_OfferMatchesReference ==
    track => hist = FoldOffers(<<>>, max_size, OffersDone)

\* The instance of the contract: capacity 3 and the offers a, b, a, c, d
\* give [b, c, d].
C25_Witness ==
    /\ track
    /\ max_size = 3
    /\ wpc = "idle"
    /\ offers = <<"a", "b", "a", "c", "d">>
    /\ hist = <<"b", "c", "d">>

\* C26: last_saved tracks last seen, not last inserted.  A poll starts on a
\* non-empty clipboard text different from last_saved, and when it ends
\* last_saved equals the text it read, whether or not an entry was inserted;
\* so the same unchanged clipboard text is offered at most once.
C26_LastSavedIsLastSeen ==
    [][/\ (wpc = "idle" /\ wpc' = "check")
            => (wcur' = clip /\ wcur' # "" /\ wcur' # last_saved)
       /\ (wpc \in {"check", "append", "save"} /\ wpc' = "idle")
            => (/\ last_saved' = wcur
                /\ clip' = wcur => ~Offered(clip', last_saved'))]_vars

\* The last poll read the older of two entries, which was not inserted
\* again, and last_saved is that text.
C26_Witness ==
    /\ wpc = "idle"
    /\ Len(hist) = 2
    /\ wcur = hist[1]
    /\ clip = wcur
    /\ last_saved = wcur

\* C27: the picker acts on the row it shows.  When the user activates or
\* deletes the selected row, the text read for the paste or the removal is
\* the text that row displayed when the picker was built, whatever the
\* watcher appended or evicted while the picker was open.
C27_ActsOnShownRow ==
    [][/\ (upc = "pi_read" /\ upc' = "pi_copy") => ul'.text = rows[sel + 1]
       /\ (upc = "del_read" /\ upc' \in {"del_snap", "del_remove"})
            => ul'.text = rows[sel + 1]]_vars

\* C28: pasting from history does not change history.  After paste_item or
\* paste_latest has written an entry of the history to the OS clipboard, and
\* while the clipboard holds it, no poll of the watcher appends that text,
\* whatever the interleaving with a poll in progress.
C28_PasteKeepsHistory ==
    [][(wpc = "append" /\ wpc' # "append" /\ pasted # "") => wcur # pasted]_vars

\* C29: a deleted or cleared entry does not come back by itself.  After a
\* delete or a clear has taken the text of the OS clipboard out of the
\* history, and until the clipboard changes, no poll of the watcher appends
\* that text, whatever the interleaving of the delete with a poll in
\* progress.
C29_DeletedStaysGone ==
    [][(wpc = "append" /\ wpc' # "append" /\ gone # "") => wcur # gone]_vars

\* C30: hotkey requests are not lost.  Every time the hotkey thread sets
\* needs_show_ui (or needs_paste_latest), the main loop eventually begins a
\* toggle_ui (or paste_latest) after that set, including when the flag is
\* set between the main loop's test of the flag and its reset to False.
C30_HotkeyNotLost ==
    /\ (pend_show # "") ~> (pend_show = "")
    /\ (pend_paste # "") ~> (pend_paste = "")

\* needs_show_ui was set between the test and the reset, and the reset has
\* cleared the flag: the toggle_ui that is next begins after that set.
C30_Witness ==
    /\ pend_show = "reset_show"
    /\ mpc = "toggle"
    /\ ~needs_show_ui

====
